---- MODULE Spec2Model ----
(***************************************************************************)
(* Model of the prompt-regex extension (src/index.js): the rule evaluation *)
(* engine (getRegexedString, runRegexScript, filterString) and the two     *)
(* prompt event handlers with their toggle.                                *)
(*                                                                         *)
(* JavaScript strings are sequences of one-character strings.  A           *)
(* JavaScript value that may or may not be a string is a record            *)
(* [t |-> "str" | "num" | "undef" | "null" | "obj", v |-> characters]: v   *)
(* holds the text of a string and the decimal digits of a number.          *)
(***************************************************************************)
EXTENDS Integers, Sequences, FiniteSets, TLC

(* ------------------------------------------------------------------ *)
(* Bounds of the model                                                 *)
(* ------------------------------------------------------------------ *)

\* longest enumerated input text
MaxLen == 3
\* longest enumerated rule list (global and scoped together)
MaxRules == 2
\* largest call depth enumerated
MaxDepth == 6

(* ------------------------------------------------------------------ *)
(* JavaScript values and string primitives                             *)
(* ------------------------------------------------------------------ *)

\* Body applied to the value of v, which is computed once
Bind(v, Body(_)) == CHOOSE y \in {Body(b) : b \in {v}} : TRUE

Str(s) == [t |-> "str", v |-> s]
Undef == [t |-> "undef", v |-> <<>>]
Null == [t |-> "null", v |-> <<>>]

Digit(d) == <<"0", "1", "2", "3", "4", "5", "6", "7", "8", "9">>[d + 1]

RECURSIVE Digits(_)
\* String(n) for a non-negative integer
Digits(n) == IF n < 10 THEN <<Digit(n)>> ELSE Digits(n \div 10) \o <<Digit(n % 10)>>

Num(n) == [t |-> "num", v |-> Digits(n)]

IsDigit(c) == c \in {"0", "1", "2", "3", "4", "5", "6", "7", "8", "9"}

DigitVal(c) == CHOOSE d \in 0..9 : Digit(d) = c

RECURSIVE NumberOf(_)
\* Number(num) for a string of decimal digits
NumberOf(ds) ==
  IF ds = <<>> THEN 0
  ELSE 10 * NumberOf(SubSeq(ds, 1, Len(ds) - 1)) + DigitVal(ds[Len(ds)])

\* JavaScript truthiness of a value: "", 0, undefined and null are falsy
Truthy(x) ==
  CASE x.t = "str" -> x.v # <<>>
    [] x.t = "num" -> x.v # <<"0">>
    [] x.t = "obj" -> TRUE
    [] OTHER -> FALSE

Lower(c) ==
  CASE c = "A" -> "a" [] c = "B" -> "b" [] c = "C" -> "c" [] c = "H" -> "h"
    [] c = "M" -> "m" [] c = "T" -> "t" [] OTHER -> c

LowerStr(s) == [k \in 1..Len(s) |-> Lower(s[k])]

\* does pat occur in s at index p (1-based)?
OccursAt(s, pat, p) ==
  /\ p >= 1
  /\ p + Len(pat) - 1 <= Len(s)
  /\ SubSeq(s, p, p + Len(pat) - 1) = pat

RECURSIVE ReplaceAllFrom(_, _, _, _)
\* String.prototype.replaceAll(pat, rep) for a non-empty string pattern,
\* scanning s from index p: every non-overlapping occurrence, left to right
ReplaceAllFrom(s, pat, rep, p) ==
  IF p > Len(s) THEN <<>>
  ELSE IF OccursAt(s, pat, p)
       THEN rep \o ReplaceAllFrom(s, pat, rep, p + Len(pat))
       ELSE <<s[p]>> \o ReplaceAllFrom(s, pat, rep, p + 1)

RECURSIVE Interleave(_, _, _)
\* replaceAll with the empty pattern: rep before every character and at the end
Interleave(s, rep, p) ==
  IF p > Len(s) THEN rep ELSE rep \o <<s[p]>> \o Interleave(s, rep, p + 1)

ReplaceFirstStr(s, pat, rep) ==
  IF \E p \in 1..Len(s) + 1 : OccursAt(s, pat, p)
  THEN LET p == CHOOSE q \in 1..Len(s) + 1 :
                  /\ OccursAt(s, pat, q)
                  /\ \A r \in 1..q - 1 : ~OccursAt(s, pat, r)
       IN SubSeq(s, 1, p - 1) \o rep \o SubSeq(s, p + Len(pat), Len(s))
  ELSE s

ReplaceAllStr(s, pat, rep) ==
  IF pat = <<>> THEN Interleave(s, rep, 1) ELSE ReplaceAllFrom(s, pat, rep, 1)

RECURSIVE ReplaceAllCIFrom(_, _, _, _)
\* replace(/pat/gi, rep) for a literal pattern, case-insensitive
ReplaceAllCIFrom(s, pat, rep, p) ==
  IF p > Len(s) THEN <<>>
  ELSE IF OccursAt(LowerStr(s), LowerStr(pat), p)
       THEN rep \o ReplaceAllCIFrom(s, pat, rep, p + Len(pat))
       ELSE <<s[p]>> \o ReplaceAllCIFrom(s, pat, rep, p + 1)

(* ------------------------------------------------------------------ *)
(* Host collaborators: macro substitution and the regex compiler       *)
(* ------------------------------------------------------------------ *)

\* the one macro of the model and the value the host resolves it to
MacroUser == <<"{", "{", "u", "}", "}">>
UserName == <<"a", "(">>

\* sanitizeRegexMacro: escape control characters and regex metacharacters
SanitizeChar(c) ==
  CASE c = "\n" -> <<"\\", "n">>
    [] c = "\r" -> <<"\\", "r">>
    [] c = "\t" -> <<"\\", "t">>
    [] c = "\f" -> <<"\\", "f">>
    [] c \in {".", "^", "$", "*", "+", "?", "{", "}", "[", "]", "\\", "/", "|", "(", ")"}
         -> <<"\\", c>>
    [] OTHER -> <<c>>

RECURSIVE sanitizeRegexMacro(_)
sanitizeRegexMacro(x) ==
  IF x = <<>> THEN x ELSE SanitizeChar(Head(x)) \o sanitizeRegexMacro(Tail(x))

\* substituteParams(text): every occurrence of the macro becomes its value
substituteParams(text) == ReplaceAllStr(text, MacroUser, UserName)

\* substituteParamsExtended(text, {}, sanitizeRegexMacro)
substituteParamsEscaped(text) ==
  ReplaceAllStr(text, MacroUser, sanitizeRegexMacro(UserName))

\* items of a compiled pattern: a literal, the wildcard, a capture group of
\* literals and wildcards (optional when followed by ?), or a syntax error
Lit(c) == [k |-> "lit", c |-> c, g |-> <<>>, opt |-> FALSE]
AnyChar == [k |-> "any", c |-> "", g |-> <<>>, opt |-> FALSE]
Grp(g, opt) == [k |-> "grp", c |-> "", g |-> g, opt |-> opt]
Bad == [k |-> "bad", c |-> "", g |-> <<>>, opt |-> FALSE]

FirstIndexOf(b, c, from) ==
  IF \E j \in from..Len(b) : b[j] = c
  THEN CHOOSE j \in from..Len(b) : b[j] = c /\ \A r \in from..j - 1 : b[r] # c
  ELSE 0

RECURSIVE ParseBody(_, _)
\* new RegExp(body): the items of the pattern, <<Bad>> at a syntax error
ParseBody(b, i) ==
  IF i > Len(b) THEN <<>>
  ELSE LET c == b[i] IN
    CASE c = "\\" ->
           IF i + 1 > Len(b) THEN <<Bad>>
           ELSE <<Lit(b[i + 1])>> \o ParseBody(b, i + 2)
      [] c = "(" ->
           LET j == FirstIndexOf(b, ")", i + 1) IN
           IF j = 0 \/ \E r \in i + 1..j - 1 : b[r] \in {"(", "?", "\\"}
           THEN <<Bad>>
           ELSE IF j + 1 <= Len(b) /\ b[j + 1] = "?"
                THEN <<Grp(SubSeq(b, i + 1, j - 1), TRUE)>> \o ParseBody(b, j + 2)
                ELSE <<Grp(SubSeq(b, i + 1, j - 1), FALSE)>> \o ParseBody(b, j + 1)
      [] c \in {")", "?"} -> <<Bad>>
      [] c = "." -> <<AnyChar>> \o ParseBody(b, i + 1)
      [] OTHER -> <<Lit(c)>> \o ParseBody(b, i + 1)

LastIndexOf(b, c) ==
  IF \E j \in 1..Len(b) : b[j] = c
  THEN CHOOSE j \in 1..Len(b) : b[j] = c /\ \A r \in j + 1..Len(b) : b[r] # c
  ELSE 0

NoRegex == [ok |-> FALSE, items |-> <<>>, g |-> FALSE, i |-> FALSE]

Compile(body, flags) ==
  Bind(ParseBody(body, 1), LAMBDA items :
    IF \/ \E k \in 1..Len(items) : items[k].k = "bad"
       \/ \E k \in 1..Len(flags) : flags[k] \notin {"g", "i"}
       \/ \E k, l \in 1..Len(flags) : k # l /\ flags[k] = flags[l]
    THEN NoRegex
    ELSE [ok |-> TRUE, items |-> items,
          g |-> \E k \in 1..Len(flags) : flags[k] = "g",
          i |-> \E k \in 1..Len(flags) : flags[k] = "i"])

\* regexFromString: /body/flags when the delimiters are there, else the whole
\* string is the body and there are no flags; no regex on a syntax error
regexFromString(input) ==
  Bind(LastIndexOf(input, "/"), LAMBDA j :
    IF Len(input) >= 3 /\ input[1] = "/" /\ j >= 3
    THEN Compile(SubSeq(input, 2, j - 1), SubSeq(input, j + 1, Len(input)))
    ELSE Compile(input, <<>>))

SameChar(re, a, b) == IF re.i THEN Lower(a) = Lower(b) ELSE a = b

\* does character a of the text match character b of a capture group?
GroupChar(re, a, b) == IF b = "." THEN a # "\n" ELSE SameChar(re, a, b)

NoMatch == [ok |-> FALSE, e |-> 0, caps |-> <<>>]

RECURSIVE MatchAt(_, _, _, _)
\* the match of items k.. of re at index p of s: its end (exclusive) and the
\* capture groups, undefined for a group that did not participate
MatchAt(re, k, s, p) ==
  IF k > Len(re.items) THEN [ok |-> TRUE, e |-> p, caps |-> <<>>]
  ELSE LET it == re.items[k] IN
    CASE it.k = "lit" ->
           IF p <= Len(s) /\ SameChar(re, s[p], it.c)
           THEN MatchAt(re, k + 1, s, p + 1) ELSE NoMatch
      [] it.k = "any" ->
           IF p <= Len(s) /\ s[p] # "\n"
           THEN MatchAt(re, k + 1, s, p + 1) ELSE NoMatch
      [] OTHER ->
           LET n == Len(it.g)
               here == /\ p + n - 1 <= Len(s)
                       /\ \A r \in 1..n : GroupChar(re, s[p + r - 1], it.g[r])
           IN Bind(IF here THEN MatchAt(re, k + 1, s, p + n) ELSE NoMatch, LAMBDA with :
                IF with.ok
                THEN [with EXCEPT !.caps = <<Str(SubSeq(s, p, p + n - 1))>> \o @]
                ELSE Bind(IF it.opt THEN MatchAt(re, k + 1, s, p) ELSE NoMatch, LAMBDA skip :
                       IF skip.ok THEN [skip EXCEPT !.caps = <<Undef>> \o @]
                       ELSE NoMatch))

\* index of the leftmost match at or after p, 0 when there is none
FindFrom(re, s, p) ==
  IF \E q \in p..Len(s) + 1 : MatchAt(re, 1, s, q).ok
  THEN CHOOSE q \in p..Len(s) + 1 :
         /\ MatchAt(re, 1, s, q).ok
         /\ \A r \in p..q - 1 : ~MatchAt(re, 1, s, r).ok
  ELSE 0

(* ------------------------------------------------------------------ *)
(* The rule engine                                                     *)
(* ------------------------------------------------------------------ *)

\* regex_placement
MD_DISPLAY == 0
USER_INPUT == 1
AI_OUTPUT == 2
SLASH_COMMAND == 3
WORLD_INFO == 5
REASONING == 6

\* substitute_find_regex
NONE == 0
RAW == 1
ESCAPED == 2

\* outcome of a call: it threw, or it returned v; calls are the matches the
\* replacer was invoked for, in order
Threw == [threw |-> TRUE, v |-> <<>>, calls |-> <<>>]
Returned(x, calls) == [threw |-> FALSE, v |-> x, calls |-> calls]

\* RemoveTrim with replace for replaceAll: the first occurrence only
RemoveFirstTrim(finalString, subTrimString) ==
  ReplaceFirstStr(finalString, subTrimString, <<>>)

\* finalString.replaceAll(subTrimString, '')
RemoveTrim(finalString, subTrimString) == ReplaceAllStr(finalString, subTrimString, <<>>)

RECURSIVE FilterLoop(_, _, _)
\* the body of trimStrings.forEach: finalString.replaceAll(subTrimString, '')
\* is a TypeError when finalString is not a string
FilterLoop(finalString, list, k) ==
  IF k > Len(list) THEN Returned(finalString, <<>>)
  ELSE IF finalString.t # "str" THEN Threw
  ELSE FilterLoop(Str(RemoveTrim(finalString.v, substituteParams(list[k]))), list, k + 1)

\* filterString(rawString, trimStrings): trimStrings.forEach is a TypeError
\* when the rule has no trimStrings
filterString(rawString, trimStrings) ==
  IF ~trimStrings.has THEN Threw ELSE FilterLoop(rawString, trimStrings.v, 1)

\* args = [...arguments] of the replacer: the match, the capture groups, the
\* offset of the match and the whole input string
ReplacerArgs(s, q, m) ==
  <<Str(SubSeq(s, q, m.e - 1))>> \o m.caps \o <<Num(q - 1), Str(s)>>

\* args[Number(num)]
ArgAt(args, num) == IF num + 1 <= Len(args) THEN args[num + 1] ELSE Undef

\* the replacer's  if (!match) return '';  else filterString(match, ...)
GroupText(arg, trimStrings) ==
  IF ~Truthy(arg) THEN Returned(Str(<<>>), <<>>) ELSE filterString(arg, trimStrings)

DigitsEnd(tpl, p) ==
  CHOOSE e \in p..Len(tpl) :
    /\ \A r \in p..e : IsDigit(tpl[r])
    /\ e = Len(tpl) \/ ~IsDigit(tpl[e + 1])

RECURSIVE ReplaceGroups(_, _, _, _)
\* replaceString.replaceAll(/\$(\d+)/g, (_, num) => ...) from index p
ReplaceGroups(tpl, p, args, trimStrings) ==
  IF p > Len(tpl) THEN Returned(<<>>, <<>>)
  ELSE IF tpl[p] = "$" /\ p + 1 <= Len(tpl) /\ IsDigit(tpl[p + 1])
  THEN Bind(DigitsEnd(tpl, p + 1), LAMBDA e :
         Bind(GroupText(ArgAt(args, NumberOf(SubSeq(tpl, p + 1, e))), trimStrings),
              LAMBDA piece :
           IF piece.threw THEN Threw
           ELSE Bind(ReplaceGroups(tpl, e + 1, args, trimStrings), LAMBDA rest :
                  IF rest.threw THEN Threw
                  ELSE Returned(piece.v.v \o rest.v, <<>>))))
  ELSE Bind(ReplaceGroups(tpl, p + 1, args, trimStrings), LAMBDA rest :
         IF rest.threw THEN Threw ELSE Returned(<<tpl[p]>> \o rest.v, <<>>))

MatchToken == <<"{", "{", "m", "a", "t", "c", "h", "}", "}">>

\* the replacer of runRegexScript: the replacement of one match;
\* regexScript.replaceString.replace is a TypeError when there is no template
Replacer(regexScript, args) ==
  IF ~regexScript.replaceString.has THEN Threw
  ELSE Bind(ReplaceAllCIFrom(regexScript.replaceString.v, MatchToken, <<"$", "0">>, 1),
            LAMBDA replaceString :
         Bind(ReplaceGroups(replaceString, 1, args, regexScript.trimStrings),
              LAMBDA replaceWithGroups :
           IF replaceWithGroups.threw THEN Threw
           ELSE Returned(substituteParams(replaceWithGroups.v), <<>>)))

\* ReplacesAll with every pattern treated as global
AlwaysReplacesAll(findRegex) == TRUE

\* does rawString.replace(findRegex, fn) go on after the first match?
ReplacesAll(findRegex) == findRegex.g

RECURSIVE ReplaceScan(_, _, _, _)
\* rawString.replace(findRegex, replacer) from index p of s: one pass over s
ReplaceScan(regexScript, findRegex, s, p) ==
  Bind(FindFrom(findRegex, s, p), LAMBDA q :
    IF q = 0 THEN Returned(SubSeq(s, p, Len(s)), <<>>)
    ELSE Bind(MatchAt(findRegex, 1, s, q), LAMBDA m :
      Bind(Replacer(regexScript, ReplacerArgs(s, q, m)), LAMBDA r :
        LET call == [at |-> q, len |-> m.e - q, rep |-> r.v]
            empty == m.e = q
            nextp == IF empty THEN q + 1 ELSE m.e
            keep == IF empty /\ q <= Len(s) THEN <<s[q]>> ELSE <<>>
        IN IF r.threw THEN Threw
           ELSE IF ~ReplacesAll(findRegex)
           THEN Returned(SubSeq(s, p, q - 1) \o r.v \o SubSeq(s, m.e, Len(s)), <<call>>)
           ELSE Bind(IF nextp > Len(s) + 1 THEN Returned(<<>>, <<>>)
                     ELSE ReplaceScan(regexScript, findRegex, s, nextp), LAMBDA rest :
                  IF rest.threw THEN Threw
                  ELSE Returned(SubSeq(s, p, q - 1) \o r.v \o keep \o rest.v,
                                <<call>> \o rest.calls)))))

getRegexString(regexScript) ==
  CASE regexScript.substituteRegex = NONE -> regexScript.findRegex
    [] regexScript.substituteRegex = RAW -> substituteParams(regexScript.findRegex)
    [] regexScript.substituteRegex = ESCAPED -> substituteParamsEscaped(regexScript.findRegex)
    [] OTHER -> regexScript.findRegex

\* the short-circuit of runRegexScript
ShortCircuit(regexScript, rawString) ==
  regexScript.disabled \/ regexScript.findRegex = <<>> \/ rawString = <<>>

\* runRegexScript(regexScript, rawString): v is the new string
runRegexScript(regexScript, rawString) ==
  IF ShortCircuit(regexScript, rawString) THEN Returned(rawString, <<>>)
  ELSE Bind(regexFromString(getRegexString(regexScript)), LAMBDA findRegex :
         IF ~findRegex.ok THEN Returned(rawString, <<>>)
         ELSE ReplaceScan(regexScript, findRegex, rawString, 1))

(* ------------------------------------------------------------------ *)
(* State                                                               *)
(* ------------------------------------------------------------------ *)

VARIABLES
  regexDisabled,      \* extension_settings.disabledExtensions.includes('regex')
  regex,              \* extension_settings.regex: the global rules, in order
  scoped,             \* the acting character: [allowed, scripts |-> [has, v]]
  regexEnabled,       \* the toggle (persisted as promptRegexerEnabled)
  main_api,           \* the host's current API
  hasGlobalChatCopy,  \* does the global object have a chatCopy property?
  chat,               \* data.chat of the last CHAT_COMPLETION_PROMPT_READY
  prompt,             \* data.prompt of the last GENERATE_AFTER_COMBINE_PROMPTS
  ev,                 \* the last operation and what it was delivered
  call,               \* a call of getRegexedString: its arguments and outcome
  exec                \* a call of runRegexScript: its arguments and outcome

vars == <<regexDisabled, regex, scoped, regexEnabled, main_api, hasGlobalChatCopy,
          chat, prompt, ev, call, exec>>

settings == <<regexDisabled, regex, scoped>>

(* ------------------------------------------------------------------ *)
(* getRegexedString                                                    *)
(* ------------------------------------------------------------------ *)

\* getScopedRegex(): the character's rules when it is allowed and they are an array
getScopedRegex ==
  IF ~scoped.allowed THEN <<>>
  ELSE IF ~scoped.scripts.has THEN <<>>
  ELSE scoped.scripts.v

\* [...(extension_settings.regex ?? []), ...(getScopedRegex() ?? [])]
Concat(global, character) == global \o character

allRegex == Concat(regex, getScopedRegex)

\* ScopeGate with an unflagged rule running on every call
ScopeGateUnflaggedEverywhere(script, isMarkdown, isPrompt) ==
  \/ script.markdownOnly /\ isMarkdown
  \/ script.promptOnly /\ isPrompt
  \/ ~script.markdownOnly /\ ~script.promptOnly

\* the condition of the outer if of the forEach body
ScopeGate(script, isMarkdown, isPrompt) ==
  \/ script.markdownOnly /\ isMarkdown
  \/ script.promptOnly /\ isPrompt
  \/ ~script.markdownOnly /\ ~script.promptOnly /\ ~isMarkdown /\ ~isPrompt

\* isEdit && !script.runOnEdit
EditSkip(script, isEdit) == isEdit /\ ~script.runOnEdit

\* MinDepthSkip with <= for <
MinDepthSkipOffByOne(minDepth, depth) ==
  minDepth.k = "int" /\ minDepth.n >= -1 /\ depth <= minDepth.n

\* !isNaN(script.minDepth) && script.minDepth !== null && script.minDepth >= -1
\*   && depth < script.minDepth
MinDepthSkip(minDepth, depth) == minDepth.k = "int" /\ minDepth.n >= -1 /\ depth < minDepth.n

\* !isNaN(script.maxDepth) && script.maxDepth !== null && script.maxDepth >= 0
\*   && depth > script.maxDepth
MaxDepthSkip(maxDepth, depth) == maxDepth.k = "int" /\ maxDepth.n >= 0 /\ depth > maxDepth.n

\* the depth check: only when typeof depth === 'number'
DepthSkip(script, depth) ==
  /\ depth.k = "int"
  /\ MinDepthSkip(script.minDepth, depth.n) \/ MaxDepthSkip(script.maxDepth, depth.n)

\* StepInput with every rule run on the original text
StepInputOriginal(rawString, finalString) == rawString

\* the string one forEach step hands to runRegexScript
StepInput(rawString, finalString) == finalString

\* outcome of getRegexedString: ran lists the runRegexScript calls made, in order
Done(threw, v, ran) == [done |-> TRUE, threw |-> threw, v |-> v, ran |-> ran]
NotCalled == [done |-> FALSE, threw |-> FALSE, v |-> Undef, ran |-> <<>>]

RECURSIVE ForEachScript(_, _, _, _, _, _)
\* allRegex.forEach(script => ...) from script k on, finalString so far;
\* script.placement.includes is a TypeError when the rule has no placement
ForEachScript(scripts, k, rawString, finalString, placement, params) ==
  IF k > Len(scripts) THEN Done(FALSE, Str(finalString), <<>>)
  ELSE LET script == scripts[k]
           next(s) == ForEachScript(scripts, k + 1, rawString, s, placement, params)
       IN IF ~ScopeGate(script, params.isMarkdown, params.isPrompt) THEN next(finalString)
          ELSE IF EditSkip(script, params.isEdit) THEN next(finalString)
          ELSE IF DepthSkip(script, params.depth) THEN next(finalString)
          ELSE IF ~script.placement.has THEN Done(TRUE, Undef, <<>>)
          ELSE IF placement.v \notin script.placement.v THEN next(finalString)
          ELSE Bind(StepInput(rawString, finalString), LAMBDA in :
                 Bind(runRegexScript(script, in), LAMBDA r :
                   LET step == [i |-> k, in |-> in, out |-> r.v, threw |-> r.threw]
                   IN IF r.threw THEN Done(TRUE, Undef, <<step>>)
                      ELSE [next(r.v) EXCEPT !.ran = <<step>> \o @]))

\* EarlyReturn without the disabledExtensions check
EarlyReturnIgnoringDisabled(rawString, placement) ==
  rawString.v = <<>> \/ ~placement.has

\* the early returns of getRegexedString, after the string check
EarlyReturn(rawString, placement) ==
  regexDisabled \/ rawString.v = <<>> \/ ~placement.has

\* what getRegexedString returns for a rawString that is not a string
NotAString(rawString) == Str(<<>>)

\* getRegexedString(rawString, placement, {isMarkdown, isPrompt, isEdit, depth})
getRegexedString(rawString, placement, params) ==
  IF rawString.t # "str" THEN Done(FALSE, NotAString(rawString), <<>>)
  ELSE IF EarlyReturn(rawString, placement) THEN Done(FALSE, rawString, <<>>)
  ELSE ForEachScript(allRegex, 1, rawString.v, rawString.v, placement, params)

(* ------------------------------------------------------------------ *)
(* The event handlers and the toggle                                   *)
(* ------------------------------------------------------------------ *)

isChatCompletion == main_api = "openai"

NoDepth == [k |-> "undef", n |-> 0]

\* the arguments both handlers pass: regex_placement.AI_OUTPUT, {isPrompt: true}
HandlerPlacement == [has |-> TRUE, v |-> AI_OUTPUT]
HandlerParams == [isMarkdown |-> FALSE, isPrompt |-> TRUE, isEdit |-> FALSE, depth |-> NoDepth]

RECURSIVE ChatForEach(_, _)
\* chatCopy.forEach(message => ...): the contents are rewritten in place, so a
\* throw leaves the messages before it rewritten
ChatForEach(messages, k) ==
  IF k > Len(messages) THEN [threw |-> FALSE, v |-> messages]
  ELSE IF messages[k].t # "str" THEN ChatForEach(messages, k + 1)
  ELSE Bind(getRegexedString(messages[k], HandlerPlacement, HandlerParams), LAMBDA r :
         IF r.threw THEN [threw |-> TRUE, v |-> messages]
         ELSE ChatForEach([messages EXCEPT ![k] = r.v], k + 1))

\* the handler of CHAT_COMPLETION_PROMPT_READY.  chatCopy is declared nowhere:
\* the assignment chatCopy = data.chat is a ReferenceError in this (strict)
\* module unless the global object happens to have a chatCopy property.  With
\* one, chatCopy and data.chat are the same array, the two JSON texts are equal
\* and the handler returns at "No changes" with the contents rewritten in place.
ChatHandler(data, dryRun) ==
  IF ~regexEnabled THEN [threw |-> FALSE, v |-> data]
  ELSE IF dryRun THEN [threw |-> FALSE, v |-> data]
  ELSE IF ~isChatCompletion THEN [threw |-> FALSE, v |-> data]
  ELSE IF ~hasGlobalChatCopy THEN [threw |-> TRUE, v |-> data]
  ELSE ChatForEach(data, 1)

\* PromptHandler without its dryRun return
PromptHandlerIgnoringDryRun(data, dryRun) ==
  IF ~regexEnabled THEN [threw |-> FALSE, v |-> data]
  ELSE IF isChatCompletion THEN [threw |-> FALSE, v |-> data]
  ELSE Bind(getRegexedString(data, HandlerPlacement, HandlerParams), LAMBDA result :
         IF result.threw THEN [threw |-> TRUE, v |-> data]
         ELSE [threw |-> FALSE, v |-> result.v])

\* the handler of GENERATE_AFTER_COMBINE_PROMPTS
PromptHandler(data, dryRun) ==
  IF ~regexEnabled THEN [threw |-> FALSE, v |-> data]
  ELSE IF dryRun THEN [threw |-> FALSE, v |-> data]
  ELSE IF isChatCompletion THEN [threw |-> FALSE, v |-> data]
  ELSE Bind(getRegexedString(data, HandlerPlacement, HandlerParams), LAMBDA result :
         IF result.threw THEN [threw |-> TRUE, v |-> data]
         ELSE IF result.v = data THEN [threw |-> FALSE, v |-> data]
         ELSE [threw |-> FALSE, v |-> result.v])

Idle ==
  [op |-> "idle", dryRun |-> FALSE, enabled |-> FALSE, api |-> "", threw |-> FALSE,
   inChat |-> <<>>, inPrompt |-> Undef]

\* the click listener of the launch button: toggleRegexNext()
ToggleClick ==
  /\ regexEnabled' = ~regexEnabled
  /\ UNCHANGED <<settings, main_api, hasGlobalChatCopy, chat, prompt, ev, call, exec>>

\* the user picks another API in the host
SetMainApi ==
  /\ main_api' = IF main_api = "openai" THEN "textgenerationwebui" ELSE "openai"
  /\ UNCHANGED <<settings, regexEnabled, hasGlobalChatCopy, chat, prompt, ev, call, exec>>

\* the host has used the container of the last event and drops it
HostSend ==
  /\ ev.op # "idle"
  /\ ev' = Idle
  /\ chat' = <<>>
  /\ prompt' = Undef
  /\ UNCHANGED <<settings, regexEnabled, main_api, hasGlobalChatCopy, call, exec>>

(* ------------------------------------------------------------------ *)
(* Inputs                                                              *)
(* ------------------------------------------------------------------ *)

\* the strings over alphabet of length at most n
Texts(alphabet, n) == UNION {[1..k -> alphabet] : k \in 0..n}

\* the sequences over pool of length at most n
Lists(pool, n) == UNION {[1..k -> pool] : k \in 0..n}

NullDepth == [k |-> "null", n |-> 0]
NaNDepth == [k |-> "nan", n |-> 0]
IntDepth(n) == [k |-> "int", n |-> n]

Present(x) == [has |-> TRUE, v |-> x]
Missing(x) == [has |-> FALSE, v |-> x]

\* a well-formed rule that runs everywhere its flags allow
Script(findRegex, replaceString, trimStrings) ==
  [disabled |-> FALSE, markdownOnly |-> FALSE, promptOnly |-> FALSE, runOnEdit |-> TRUE,
   minDepth |-> NullDepth, maxDepth |-> NullDepth,
   placement |-> Present({AI_OUTPUT}),
   findRegex |-> findRegex, replaceString |-> Present(replaceString),
   trimStrings |-> Present(trimStrings), substituteRegex |-> NONE]

PromptScript(findRegex, replaceString) ==
  [Script(findRegex, replaceString, <<>>) EXCEPT !.promptOnly = TRUE]

AtoB == <<"/", "a", "/", "g">>
BtoC == <<"/", "b", "/">>
Unparseable == <<"/", "(", "a", "/", "g">>

NoCall == [rawString |-> Undef, placement |-> Missing(0), params |-> HandlerParams,
           ret |-> NotCalled]
NoExec == [regexScript |-> Script(<<>>, <<>>, <<>>), rawString |-> <<>>, done |-> FALSE,
           ret |-> Threw]

(* ------------------------------------------------------------------ *)
(* The extension in the host: toggle clicks and prompt events          *)
(* ------------------------------------------------------------------ *)

\* longest chat delivered
MaxChat == 2

\* the rules the events run against: all promptOnly at AI_OUTPUT but the last
EventScripts ==
  { PromptScript(AtoB, <<"b">>),
    PromptScript(BtoC, <<"c", "$", "1">>),
    [PromptScript(AtoB, <<>>) EXCEPT !.replaceString = Missing(<<>>)],
    Script(AtoB, <<"c">>, <<>>) }

\* message contents: strings, and an array of content parts
Contents == {Str(<<"a">>), Str(<<"a", "b">>), Str(<<>>), [t |-> "obj", v |-> <<>>]}

Prompts == {Str(<<"a">>), Str(<<"a", "b">>), Str(<<>>), Undef}

Init ==
  /\ regexDisabled = FALSE
  /\ regex \in Lists(EventScripts, MaxRules)
  /\ scoped \in {[allowed |-> a, scripts |-> Present(<<PromptScript(BtoC, <<"a", "a">>)>>)]
                   : a \in BOOLEAN}
  /\ regexEnabled \in BOOLEAN
  /\ main_api \in {"openai", "textgenerationwebui"}
  /\ hasGlobalChatCopy \in BOOLEAN
  /\ chat = <<>>
  /\ prompt = Undef
  /\ ev = Idle
  /\ call = NoCall
  /\ exec = NoExec

\* eventSource emits CHAT_COMPLETION_PROMPT_READY with data.chat and data.dryRun
ChatCompletionPromptReady ==
  /\ ev.op = "idle"
  /\ \E data \in Lists(Contents, MaxChat), dryRun \in BOOLEAN :
       \E r \in {ChatHandler(data, dryRun)} :
       /\ chat' = r.v
       /\ ev' = [op |-> "chat", dryRun |-> dryRun, enabled |-> regexEnabled,
                 api |-> main_api, threw |-> r.threw, inChat |-> data, inPrompt |-> Undef]
  /\ UNCHANGED <<settings, regexEnabled, main_api, hasGlobalChatCopy, prompt, call, exec>>

\* eventSource emits GENERATE_AFTER_COMBINE_PROMPTS with data.prompt and data.dryRun
GenerateAfterCombinePrompts ==
  /\ ev.op = "idle"
  /\ \E data \in Prompts, dryRun \in BOOLEAN :
       \E r \in {PromptHandler(data, dryRun)} :
       /\ prompt' = r.v
       /\ ev' = [op |-> "prompt", dryRun |-> dryRun, enabled |-> regexEnabled,
                 api |-> main_api, threw |-> r.threw, inChat |-> <<>>, inPrompt |-> data]
  /\ UNCHANGED <<settings, regexEnabled, main_api, hasGlobalChatCopy, chat, call, exec>>

Next ==
  \/ ToggleClick
  \/ SetMainApi
  \/ ChatCompletionPromptReady
  \/ GenerateAfterCombinePrompts
  \/ HostSend

Spec == Init /\ [][Next]_vars

(* ------------------------------------------------------------------ *)
(* Calls of getRegexedString: one rule, every combination of gates     *)
(* ------------------------------------------------------------------ *)

CallGetRegexedString ==
  /\ ~call.ret.done
  /\ call' = [call EXCEPT !.ret = getRegexedString(call.rawString, call.placement, call.params)]
  /\ UNCHANGED <<settings, regexEnabled, main_api, hasGlobalChatCopy, chat, prompt, ev, exec>>

NextRewrite == CallGetRegexedString

MinDepths == {NullDepth, NaNDepth, IntDepth(-2), IntDepth(2)}
MaxDepths == {NullDepth, NaNDepth, IntDepth(-1), IntDepth(5)}
Placements == {Present({AI_OUTPUT}), Present({USER_INPUT, WORLD_INFO}), Missing({})}

\* the rule a -> b under every combination of its gate fields
GateScripts ==
  { [Script(AtoB, <<"b">>, <<>>) EXCEPT
       !.disabled = d, !.markdownOnly = m, !.promptOnly = pr, !.runOnEdit = e,
       !.minDepth = mn, !.maxDepth = mx, !.placement = pl]
    : d \in BOOLEAN, m \in BOOLEAN, pr \in BOOLEAN, e \in BOOLEAN,
      mn \in MinDepths, mx \in MaxDepths, pl \in Placements }

Depths == {NoDepth} \cup {IntDepth(n) : n \in 0..MaxDepth}

Params ==
  [isMarkdown : BOOLEAN, isPrompt : BOOLEAN, isEdit : BOOLEAN, depth : Depths]

Quiet ==
  /\ regexEnabled = FALSE
  /\ main_api = "openai"
  /\ hasGlobalChatCopy = FALSE
  /\ chat = <<>>
  /\ prompt = Undef
  /\ ev = Idle

InitGate ==
  /\ Quiet
  /\ regexDisabled = FALSE
  /\ regex \in {<<script>> : script \in GateScripts}
  /\ scoped = [allowed |-> FALSE, scripts |-> Present(<<>>)]
  /\ call \in [rawString : {Str(<<"b", "a", "a">>)},
               placement : {Present(AI_OUTPUT), Present(USER_INPUT)},
               params : Params, ret : {NotCalled}]
  /\ exec = NoExec

SpecGate == InitGate /\ [][NextRewrite]_vars

(* ------------------------------------------------------------------ *)
(* Calls of getRegexedString: rule lists, global and scoped            *)
(* ------------------------------------------------------------------ *)

RewriteScripts ==
  { Script(AtoB, <<"b">>, <<>>),
    Script(BtoC, <<"c">>, <<>>),
    [Script(AtoB, <<"c">>, <<>>) EXCEPT !.placement = Present({USER_INPUT})],
    [Script(BtoC, <<>>, <<>>) EXCEPT !.replaceString = Missing(<<>>)],
    [Script(AtoB, <<"c">>, <<>>) EXCEPT !.placement = Missing({})] }

\* the rule sets: a list of at most MaxRules rules, split anywhere into the
\* global rules and the character's
RuleSets ==
  UNION { { [regex |-> SubSeq(l, 1, k), character |-> SubSeq(l, k + 1, Len(l))]
            : k \in 0..Len(l) }
          : l \in Lists(RewriteScripts, MaxRules) }

PlainParams == [isMarkdown |-> FALSE, isPrompt |-> FALSE, isEdit |-> FALSE, depth |-> NoDepth]

InitRewrite ==
  /\ Quiet
  /\ regexDisabled \in BOOLEAN
  /\ \E rs \in RuleSets, a \in BOOLEAN :
       /\ regex = rs.regex
       /\ scoped = [allowed |-> a, scripts |-> Present(rs.character)]
  /\ call \in [rawString : {Str(x) : x \in Texts({"a", "b"}, MaxLen)} \cup {Undef, Num(5)},
               placement : {Present(AI_OUTPUT), Missing(0)},
               params : {PlainParams}, ret : {NotCalled}]
  /\ exec = NoExec

SpecRewrite == InitRewrite /\ [][NextRewrite]_vars

(* ------------------------------------------------------------------ *)
(* Calls of runRegexScript                                             *)
(* ------------------------------------------------------------------ *)

CallRunRegexScript ==
  /\ ~exec.done
  /\ exec' = [exec EXCEPT !.done = TRUE,
                          !.ret = runRegexScript(exec.regexScript, exec.rawString)]
  /\ UNCHANGED <<settings, regexEnabled, main_api, hasGlobalChatCopy, chat, prompt, ev, call>>

NextExec == CallRunRegexScript

FooFooBar == <<"f", "o", "o", "f", "o", "o", "b", "a", "r">>

ExecPatterns ==
  { AtoB, <<"/", "a", "/">>, <<"a">>,
    <<"/", "(", "a", ")", "?", "b", "/", "g">>,
    <<"/", "(", ".", ".", ")", "(", "b", ")", "?", "/", "g">>,
    <<"/", "(", "a", ")", "?", "/", "g">>,
    <<"/", "A", "/", "g", "i">>,
    <<"/", "(">> \o FooFooBar \o <<")", "/">>,
    Unparseable, <<>> }

ExecTemplates ==
  { Present(<<"a", "a">>), Present(<<"$", "0", "$", "0">>), Present(<<"[", "$", "1", "]">>),
    Present(<<"$", "2">>), Present(<<"$", "3">>), Present(<<"a", "$", "0">>),
    Present(<<"$", "1", "0">>), Present(<<"{", "{", "M", "a", "t", "c", "h", "}", "}", "!">>),
    Present(MacroUser), Missing(<<>>) }

ExecTrims ==
  { Present(<<>>), Present(<< <<"a">> >>), Present(<< <<"a", "b">>, <<"b">> >>),
    Present(<< <<"f", "o", "o">> >>), Missing(<<>>) }

ExecScripts ==
  { [Script(f, <<>>, <<>>) EXCEPT !.replaceString = r, !.trimStrings = t]
    : f \in ExecPatterns, r \in ExecTemplates, t \in ExecTrims }
  \cup
  { [Script(<<"/">> \o MacroUser \o <<"/", "g">>, <<"x">>, <<>>) EXCEPT
       !.substituteRegex = m, !.disabled = d] : m \in 0..3, d \in BOOLEAN }

InitExec ==
  /\ Quiet
  /\ regexDisabled = FALSE
  /\ regex = <<>>
  /\ scoped = [allowed |-> FALSE, scripts |-> Present(<<>>)]
  /\ call = NoCall
  /\ exec \in [regexScript : ExecScripts,
               rawString : Texts({"a", "b"}, MaxLen) \cup {FooFooBar, <<"b", "a", "(">>},
               done : {FALSE}, ret : {Threw}]

SpecExec == InitExec /\ [][NextExec]_vars

(* ------------------------------------------------------------------ *)
(* Properties of the event handlers (Spec)                             *)
(* ------------------------------------------------------------------ *)

\* what the handlers' call of getRegexedString returns for one string
Rewritten(content) == getRegexedString(content, HandlerPlacement, HandlerParams)

\* C9: a handler leaves its container as delivered whenever the toggle is
\* off, the event is a dry run, or the API mode is not the hook's own
\* (chat completion for CHAT_COMPLETION_PROMPT_READY, anything else for
\* GENERATE_AFTER_COMBINE_PROMPTS); so in one API mode only one hook rewrites.
C9_HandlersLeaveContainerAlone ==
  [][ /\ ( /\ ev.op = "idle" /\ ev'.op = "chat"
           /\ ~regexEnabled \/ ev'.dryRun \/ main_api # "openai" )
         => chat' = ev'.inChat
      /\ ( /\ ev.op = "idle" /\ ev'.op = "prompt"
           /\ ~regexEnabled \/ ev'.dryRun \/ main_api = "openai" )
         => prompt' = ev'.inPrompt
      /\ (ev.op = "idle" /\ ev'.op = "chat" /\ chat' # ev'.inChat) => main_api = "openai"
      /\ (ev.op = "idle" /\ ev'.op = "prompt" /\ prompt' # ev'.inPrompt)
         => main_api # "openai" ]_vars

\* a dry-run prompt event with the toggle on, in the hook's own mode, whose
\* prompt the rules would have rewritten, and the prompt is as delivered
C9_Witness ==
  /\ ev.op = "prompt" /\ ev.dryRun /\ ev.enabled /\ ev.api # "openai"
  /\ regexEnabled /\ main_api = ev.api
  /\ ~Rewritten(ev.inPrompt).threw
  /\ Rewritten(ev.inPrompt).v # ev.inPrompt
  /\ prompt = ev.inPrompt

\* C10: with the toggle on, no dry run and the chat-completion API, the
\* CHAT_COMPLETION_PROMPT_READY handler ends without a fault, data.chat keeps
\* its messages in number and order, every string content is
\* getRegexedString(old content, AI_OUTPUT, {isPrompt: true}) and every other
\* content is unchanged.
C10_ChatHandlerRewritesEveryString ==
  (ev.op = "chat" /\ ev.enabled /\ ~ev.dryRun /\ ev.api = "openai")
  => /\ ~ev.threw
     /\ Len(chat) = Len(ev.inChat)
     /\ \A k \in 1..Len(ev.inChat) :
          chat[k] = IF ev.inChat[k].t = "str" THEN Rewritten(ev.inChat[k]).v
                    ELSE ev.inChat[k]

(* ------------------------------------------------------------------ *)
(* Properties of the gates (SpecGate)                                  *)
(* ------------------------------------------------------------------ *)

\* the one rule of a call under SpecGate
TheScript == regex[1]

\* the rule's replacement took effect on the string
Applied == call.ret.done /\ ~call.ret.threw /\ call.ret.v # call.rawString

\* the gates other than depth, as the specification words them
GatesPass ==
  /\ ~TheScript.disabled
  /\ \/ TheScript.markdownOnly /\ call.params.isMarkdown
     \/ TheScript.promptOnly /\ call.params.isPrompt
     \/ /\ ~TheScript.markdownOnly /\ ~TheScript.promptOnly
        /\ ~call.params.isMarkdown /\ ~call.params.isPrompt
  /\ ~call.params.isEdit \/ TheScript.runOnEdit
  /\ TheScript.placement.has
  /\ call.placement.v \in TheScript.placement.v

\* C2: when depth is not a number, the rule is applied iff it is not
\* disabled, the scope gate holds, isEdit is falsy or runOnEdit is true, and
\* the placement is one of the rule's placements.
C2_GatesDecideApplication ==
  (call.ret.done /\ call.params.depth.k = "undef") => (Applied <=> GatesPass)

\* an edit-time prompt call at one of the rule's placements: a promptOnly
\* rule with runOnEdit is applied
C2_Witness ==
  /\ call.ret.done /\ call.params.depth.k = "undef"
  /\ call.params.isPrompt /\ call.params.isEdit /\ ~call.params.isMarkdown
  /\ TheScript.promptOnly /\ TheScript.runOnEdit /\ ~TheScript.markdownOnly
  /\ call.placement.v \in TheScript.placement.v
  /\ Applied
  /\ call.ret.v = Str(<<"b", "b", "b">>)

ValidMin(d) == d.k = "int" /\ d.n >= -1
ValidMax(d) == d.k = "int" /\ d.n >= 0

\* the depth bounds, as the specification words them
DepthWithin(depth) ==
  /\ ~ValidMin(TheScript.minDepth) \/ TheScript.minDepth.n <= depth
  /\ ~ValidMax(TheScript.maxDepth) \/ TheScript.maxDepth.n >= depth

\* C5: when depth is a number, a rule that passes the other gates is applied
\* iff depth is within its valid bounds (null, NaN, minDepth < -1 and
\* maxDepth < 0 are no bound); when depth is not a number the bounds do not
\* matter.
C5_DepthGate ==
  call.ret.done =>
    /\ call.params.depth.k = "int"
         => (Applied <=> (GatesPass /\ DepthWithin(call.params.depth.n)))
    /\ (call.params.depth.k = "undef" /\ GatesPass) => Applied

\* the rule with minDepth 2 and maxDepth 5 is applied at depth 5
C5_Witness ==
  /\ call.ret.done
  /\ call.params.depth = IntDepth(5)
  /\ TheScript.minDepth = IntDepth(2) /\ TheScript.maxDepth = IntDepth(5)
  /\ Applied

(* ------------------------------------------------------------------ *)
(* Properties of the rewrite (SpecRewrite)                             *)
(* ------------------------------------------------------------------ *)

\* the rule set in configured order: the global rules, then the rules of an
\* allowed character
ConfiguredOrder ==
  regex \o (IF scoped.allowed /\ scoped.scripts.has THEN scoped.scripts.v ELSE <<>>)

\* the rule passes the gates of the call, as the specification words them
Selected(script) ==
  /\ \/ script.markdownOnly /\ call.params.isMarkdown
     \/ script.promptOnly /\ call.params.isPrompt
     \/ /\ ~script.markdownOnly /\ ~script.promptOnly
        /\ ~call.params.isMarkdown /\ ~call.params.isPrompt
  /\ ~call.params.isEdit \/ script.runOnEdit
  /\ call.params.depth.k = "int" =>
       /\ ~ValidMin(script.minDepth) \/ script.minDepth.n <= call.params.depth.n
       /\ ~ValidMax(script.maxDepth) \/ script.maxDepth.n >= call.params.depth.n
  /\ script.placement.has
  /\ call.placement.v \in script.placement.v

RECURSIVE Folded(_, _, _)
\* execute(rn, ... execute(r2, execute(r1, text))) over the first n rules of
\* list, restricted to the selected ones
Folded(list, n, text) ==
  IF n = 0 THEN text
  ELSE Bind(Folded(list, n - 1, text), LAMBDA prev :
         IF Selected(list[n]) THEN runRegexScript(list[n], prev).v ELSE prev)

\* the call went past the early returns and returned
Rewrote ==
  /\ call.ret.done /\ ~call.ret.threw
  /\ call.rawString.t = "str" /\ call.rawString.v # <<>>
  /\ call.placement.has /\ ~regexDisabled

\* C1: the result is the fold of the selected rules over the text in
\* configured order, global rules before scoped ones, each rule's output
\* the next rule's input.
C1_FoldInConfiguredOrder ==
  Rewrote =>
    LET ran == call.ret.ran IN
    /\ call.ret.v = Str(Folded(ConfiguredOrder, Len(ConfiguredOrder), call.rawString.v))
    /\ {ran[j].i : j \in 1..Len(ran)}
         = {k \in 1..Len(ConfiguredOrder) : Selected(ConfiguredOrder[k])}
    /\ \A j \in 1..Len(ran) :
         /\ ran[j].in = IF j = 1 THEN call.rawString.v ELSE ran[j - 1].out
         /\ j < Len(ran) => ran[j].i < ran[j + 1].i
    /\ call.ret.v = Str(IF ran = <<>> THEN call.rawString.v ELSE ran[Len(ran)].out)

\* global rule a -> b, scoped rule b -> c of an allowed character, text "a":
\* both rules ran and the result is "c"
C1_Witness ==
  /\ Rewrote
  /\ regex = <<Script(AtoB, <<"b">>, <<>>)>>
  /\ scoped.allowed /\ scoped.scripts.v = <<Script(BtoC, <<"c">>, <<>>)>>
  /\ call.rawString = Str(<<"a">>)
  /\ Len(call.ret.ran) = 2
  /\ call.ret.v = Str(<<"c">>)

\* C3: a fault of one rule never leaves getRegexedString and never aborts
\* the chain: the call returns and every selected rule was executed.
C3_RuleFaultsAreContained ==
  (call.ret.done /\ call.rawString.t = "str" /\ call.rawString.v # <<>>
     /\ call.placement.has /\ ~regexDisabled)
  => /\ ~call.ret.threw
     /\ \A k \in 1..Len(ConfiguredOrder) :
          Selected(ConfiguredOrder[k])
            => \E j \in 1..Len(call.ret.ran) : call.ret.ran[j].i = k

\* no rule was executed
NoRuleRun == call.ret.ran = <<>> /\ ~call.ret.threw

\* C4 as claimed: the input comes back unchanged, no rule executed, when the
\* feature is disabled, the input is not a string, the input is empty or
\* placement is undefined.
C4_EarlyReturnsInputUnchanged ==
  ( /\ call.ret.done
    /\ \/ regexDisabled
       \/ call.rawString.t # "str"
       \/ call.rawString.v = <<>>
       \/ ~call.placement.has )
  => (call.ret.v = call.rawString /\ NoRuleRun)

\* C4 as amended: an input that is not a string gives the empty string; a
\* string comes back unchanged when the feature is disabled, the string is
\* empty or placement is undefined; no rule is executed in any of these cases.
C4_EarlyReturns ==
  call.ret.done =>
    /\ call.rawString.t # "str" => (call.ret.v = Str(<<>>) /\ NoRuleRun)
    /\ ( /\ call.rawString.t = "str"
         /\ regexDisabled \/ call.rawString.v = <<>> \/ ~call.placement.has )
       => (call.ret.v = call.rawString /\ NoRuleRun)

\* the feature is disabled and the rule a -> b, which would have rewritten
\* the text, was not run
C4_Witness ==
  /\ call.ret.done /\ regexDisabled
  /\ call.rawString = Str(<<"a", "b">>) /\ call.placement.has
  /\ regex = <<Script(AtoB, <<"b">>, <<>>)>>
  /\ call.ret.v = call.rawString /\ NoRuleRun

(* ------------------------------------------------------------------ *)
(* Properties of one rule execution (SpecExec)                         *)
(* ------------------------------------------------------------------ *)

TheRegex == regexFromString(getRegexString(exec.regexScript))

\* the call went past the short-circuits to the replace
Executed ==
  /\ exec.done
  /\ ~exec.regexScript.disabled
  /\ exec.regexScript.findRegex # <<>>
  /\ exec.rawString # <<>>
  /\ TheRegex.ok

RECURSIVE AllMatches(_, _, _)
\* the non-overlapping matches of re in s from index p, left to right
AllMatches(re, s, p) ==
  Bind(FindFrom(re, s, p), LAMBDA q :
    IF q = 0 THEN <<>>
    ELSE Bind(MatchAt(re, 1, s, q).e - q, LAMBDA len :
           <<[at |-> q, len |-> len]>>
           \o (IF (IF len = 0 THEN q + 1 ELSE q + len) > Len(s) + 1 THEN <<>>
               ELSE AllMatches(re, s, IF len = 0 THEN q + 1 ELSE q + len))))

Places(calls) == [j \in 1..Len(calls) |-> [at |-> calls[j].at, len |-> calls[j].len]]

RECURSIVE Splice(_, _, _, _)
\* s from index p with the match of each call from j on replaced by its rep
Splice(s, calls, j, p) ==
  IF j > Len(calls) THEN SubSeq(s, p, Len(s))
  ELSE SubSeq(s, p, calls[j].at - 1) \o calls[j].rep
       \o Splice(s, calls, j + 1, calls[j].at + calls[j].len)

\* C6 as claimed: whatever the flags, every non-overlapping match is
\* replaced, in one pass over the original input.
C6_EveryMatchReplaced ==
  (Executed /\ ~exec.ret.threw) =>
    /\ Places(exec.ret.calls) = AllMatches(TheRegex, exec.rawString, 1)
    /\ exec.ret.v = Splice(exec.rawString, exec.ret.calls, 1, 1)

\* C6 as amended: every non-overlapping match is replaced when the pattern
\* carries the g flag and only the leftmost one when it does not; the matches
\* are those of the original input (replacement text is not scanned), and
\* there are at most Len(input) + 1 replacements.
C6_OnePassReplace ==
  (Executed /\ ~exec.ret.threw) =>
    LET all == AllMatches(TheRegex, exec.rawString, 1) IN
    /\ Places(exec.ret.calls)
         = IF TheRegex.g THEN all ELSE SubSeq(all, 1, IF all = <<>> THEN 0 ELSE 1)
    /\ exec.ret.v = Splice(exec.rawString, exec.ret.calls, 1, 1)
    /\ Len(exec.ret.calls) <= Len(exec.rawString) + 1

\* /a/ (no g flag) with template "aa" on "aba": two matches, the first one
\* alone is replaced, and the replacement is not matched again
C6_Witness ==
  /\ Executed /\ ~exec.ret.threw
  /\ exec.regexScript.findRegex = <<"/", "a", "/">>
  /\ exec.regexScript.replaceString = Present(<<"a", "a">>)
  /\ exec.rawString = <<"a", "b", "a">>
  /\ Len(AllMatches(TheRegex, exec.rawString, 1)) = 2
  /\ Len(exec.ret.calls) = 1
  /\ exec.ret.v = <<"a", "a", "b", "a">>

\* the template is literal text around one numbered placeholder
SinglePlaceholder(tpl) ==
  /\ Cardinality({k \in 1..Len(tpl) : tpl[k] = "$"}) = 1
  /\ \A k \in 1..Len(tpl) : tpl[k] # "{"
  /\ \E k \in 1..Len(tpl) - 1 : tpl[k] = "$" /\ IsDigit(tpl[k + 1])

PlaceholderAt(tpl) == CHOOSE k \in 1..Len(tpl) : tpl[k] = "$"
PlaceholderEnd(tpl) == DigitsEnd(tpl, PlaceholderAt(tpl) + 1)
PlaceholderNumber(tpl) == NumberOf(SubSeq(tpl, PlaceholderAt(tpl) + 1, PlaceholderEnd(tpl)))

\* the match at q and its capture groups
GroupsAt(q) ==
  Bind(MatchAt(TheRegex, 1, exec.rawString, q), LAMBDA m :
    <<Str(SubSeq(exec.rawString, q, m.e - 1))>> \o m.caps)

RECURSIVE RemoveOccurrences(_, _)
\* text without the occurrences of t, found one after the other
RemoveOccurrences(text, t) ==
  IF t = <<>> \/ ~\E p \in 1..Len(text) : OccursAt(text, t, p) THEN text
  ELSE Bind(CHOOSE p \in 1..Len(text) :
              OccursAt(text, t, p) /\ \A r \in 1..p - 1 : ~OccursAt(text, t, r),
            LAMBDA p : SubSeq(text, 1, p - 1)
                       \o RemoveOccurrences(SubSeq(text, p + Len(t), Len(text)), t))

RECURSIVE TrimAll(_, _, _)
\* the trim strings from the k-th on, each macro-substituted, removed in order
TrimAll(text, list, k) ==
  IF k > Len(list) THEN text
  ELSE TrimAll(RemoveOccurrences(text, substituteParams(list[k])), list, k + 1)

\* the text of match/group n at q after trimming; empty for a group that is
\* not in the pattern or did not participate
ResolvedText(q, n) ==
  Bind(GroupsAt(q), LAMBDA groups :
    IF n + 1 <= Len(groups) /\ groups[n + 1].t = "str"
    THEN TrimAll(groups[n + 1].v, exec.regexScript.trimStrings.v, 1)
    ELSE <<>>)

\* the replacement of the match at q for a single-placeholder template
ExpectedReplacement(q) ==
  LET tpl == exec.regexScript.replaceString.v IN
  SubSeq(tpl, 1, PlaceholderAt(tpl) - 1)
  \o ResolvedText(q, PlaceholderNumber(tpl))
  \o SubSeq(tpl, PlaceholderEnd(tpl) + 1, Len(tpl))

\* a rule with trim strings and a single-placeholder template was executed
PlaceholderCase ==
  /\ Executed
  /\ exec.regexScript.replaceString.has
  /\ exec.regexScript.trimStrings.has
  /\ SinglePlaceholder(exec.regexScript.replaceString.v)

\* C7: a placeholder $N resolves to the trimmed text of match/group N, and
\* to the empty string when the pattern has no group N or the group did not
\* participate, at every match position and without a fault.
C7_MissingGroupResolvesEmpty ==
  PlaceholderCase =>
    /\ ~exec.ret.threw
    /\ \A j \in 1..Len(exec.ret.calls) :
         exec.ret.calls[j].rep = ExpectedReplacement(exec.ret.calls[j].at)

\* the placeholder names the match or a capture group of the pattern
NamesGroup ==
  PlaceholderNumber(exec.regexScript.replaceString.v)
    < Len(GroupsAt(FindFrom(TheRegex, exec.rawString, 1)))

\* C8: the trim strings are removed from the resolved group text in list
\* order, every occurrence of each, and the literal text of the template
\* around the placeholder is kept as it is.
C8_TrimsResolvedTextOnly ==
  (PlaceholderCase /\ FindFrom(TheRegex, exec.rawString, 1) # 0 /\ NamesGroup) =>
    /\ ~exec.ret.threw
    /\ Len(exec.ret.calls) >= 1
    /\ \A j \in 1..Len(exec.ret.calls) :
         exec.ret.calls[j].rep = ExpectedReplacement(exec.ret.calls[j].at)

\* trimStrings ["foo"], group "foofoobar", template "[$1]": the replacement
\* is "[bar]"
C8_Witness ==
  /\ PlaceholderCase
  /\ exec.regexScript.findRegex = <<"/", "(">> \o FooFooBar \o <<")", "/">>
  /\ exec.regexScript.trimStrings = Present(<< <<"f", "o", "o">> >>)
  /\ exec.regexScript.replaceString = Present(<<"[", "$", "1", "]">>)
  /\ exec.rawString = FooFooBar
  /\ ~exec.ret.threw
  /\ exec.ret.v = <<"[", "b", "a", "r", "]">>

====
